---- MODULE Spec2Model ----
(***************************************************************************)
(* BaseWriter::write of src/pa_module/writer_base.cpp: the byte buffer     *)
(* that turns variably sized PCM chunks into fixed-size encoder frames.    *)
(*                                                                         *)
(* The encoder (avcodec_encode_audio2) and the muxer                       *)
(* (av_interleaved_write_frame) are external; their results are inputs.    *)
(* encodeLog, emitLog, fed, startLen, iters and failure are history        *)
(* variables that record what the code did; the code never reads them.     *)
(***************************************************************************)
EXTENDS Integers, Sequences, FiniteSets, TLC

\* ---- bounds ----
MaxSamplesSize == 4      \* largest frame size in bytes
MaxTotal == 5            \* largest number of bytes fed over one run
MaxEncodes == MaxTotal + 1   \* cap on encoder calls (reached only by a loop that never ends)

Byte == {0, 1}
NoReturn == 0 - 1        \* write() has not returned yet
Chunks(n) == UNION {[1..k -> Byte] : k \in 0..n}
EncodeOutcome == {"packet", "nothing", "error"}

VARIABLES
    qt_no_debug,     \* build: TRUE when Q_ASSERT is compiled out
    m_samples_size,  \* frame size in bytes
    m_buffer,        \* bytes not yet encoded
    m_samples,       \* the frame handed to the encoder
    pkt,             \* 0, or the number of the frame whose packet is held
    count,           \* the count argument of the running / last write()
    retval,          \* what the last write() returned
    pc,              \* position inside write()
    fed,             \* every byte passed to write(), in order
    encodeLog,       \* frames passed to the encoder, with the result
    emitLog,         \* packets passed to the muxer (frame numbers)
    startLen,        \* buffer length right after the append of this call
    iters,           \* loop iterations of this call
    failure          \* first failed library call of this write()

vars == <<qt_no_debug, m_samples_size, m_buffer, m_samples, pkt, count, retval,
          pc, fed, encodeLog, emitLog, startLen, iters, failure>>

NoFailure == [kind |-> "none", encodes |-> 0, emits |-> 0]

\* ---- pieces of write() ----

\* Q_ASSERT(cond) aborts only in a build without QT_NO_DEBUG.
Q_ASSERT_aborts(cond) == (~qt_no_debug) /\ (~cond)

appendOffByOne(buf, chunk) == buf \o chunk \o <<0>>
\* m_buffer.append(buf, count)
append(buf, chunk) == buf \o chunk

\* if (m_buffer.size() < m_samples_size) return count;
NotEnoughData(buf, size) == Len(buf) < size

HasFrameStrict(buf, size) == Len(buf) > size
\* while (m_buffer.size() >= m_samples_size)
HasFrame(buf, size) == Len(buf) >= size

memcpyTail(buf, size) == SubSeq(buf, Len(buf) - size + 1, Len(buf))
\* memcpy(m_samples, m_buffer.data(), m_samples_size)
memcpy(buf, size) == SubSeq(buf, 1, size)

removeAll(buf, size) == <<>>
\* m_buffer.remove(0, m_samples_size)
remove(buf, size) == SubSeq(buf, size + 1, Len(buf))

ShouldEmitAlways(got_output) == TRUE
\* if (got_output)
ShouldEmit(got_output) == got_output

AfterEncodeDeferred(emit) == "while"
\* the statement that follows the encoder call
AfterEncode(emit) == IF emit THEN "emit" ELSE "while"

WriteResultRemaining(n) == Len(m_buffer)
\* return count;
WriteResult(n) == n

\* ---- initial states ----

InitRest ==
    /\ qt_no_debug \in BOOLEAN
    /\ m_buffer = <<>>
    /\ m_samples = <<>>
    /\ pkt = 0
    /\ count = 0
    /\ retval = NoReturn
    /\ pc = "idle"
    /\ fed = <<>>
    /\ encodeLog = <<>>
    /\ emitLog = <<>>
    /\ startLen = 0
    /\ iters = 0
    /\ failure = NoFailure

\* av_samples_get_buffer_size succeeded for 1 or 2 channels of FLTP samples.
Init ==
    /\ m_samples_size \in 1..MaxSamplesSize
    /\ InitRest

\* Every size that passes Q_ASSERT(m_samples_size >= 0) in the constructor.
InitCtor ==
    /\ m_samples_size \in {n \in (0 - 1)..MaxSamplesSize : n >= 0}
    /\ InitRest

\* ---- actions ----

\* Entry of write(): append, then the early return.
write(buf) ==
    /\ pc = "idle"
    /\ Len(fed) + Len(buf) <= MaxTotal
    /\ m_buffer' = append(m_buffer, buf)
    /\ count' = Len(buf)
    /\ fed' = fed \o buf
    /\ startLen' = Len(m_buffer')
    /\ iters' = 0
    /\ failure' = NoFailure
    /\ IF NotEnoughData(m_buffer', m_samples_size)
         THEN pc' = "idle" /\ retval' = WriteResult(Len(buf))
         ELSE pc' = "while" /\ retval' = NoReturn
    /\ UNCHANGED <<qt_no_debug, m_samples_size, m_samples, pkt, encodeLog, emitLog>>

\* The loop test; when it fails the call returns count.
WhileTest ==
    /\ pc = "while"
    /\ IF HasFrame(m_buffer, m_samples_size)
         THEN pc' = "body" /\ retval' = retval
         ELSE pc' = "idle" /\ retval' = WriteResult(count)
    /\ UNCHANGED <<qt_no_debug, m_samples_size, m_buffer, m_samples, pkt, count,
                   fed, encodeLog, emitLog, startLen, iters, failure>>

\* av_init_packet, the copy into m_samples, the removal from m_buffer.
CopyFrame ==
    /\ pc = "body"
    /\ pkt' = 0
    /\ m_samples' = memcpy(m_buffer, m_samples_size)
    /\ m_buffer' = remove(m_buffer, m_samples_size)
    /\ iters' = iters + 1
    /\ pc' = "encode"
    /\ UNCHANGED <<qt_no_debug, m_samples_size, count, retval, fed, encodeLog,
                   emitLog, startLen, failure>>

\* avcodec_encode_audio2 and the assertion on its result.
avcodec_encode_audio2(out) ==
    /\ pc = "encode"
    /\ Len(encodeLog) < MaxEncodes
    /\ encodeLog' = Append(encodeLog, [frame |-> m_samples, out |-> out])
    /\ LET ret_ok == out # "error"
           got_output == out = "packet"
       IN /\ pkt' = IF got_output THEN Len(encodeLog') ELSE 0
          /\ failure' = IF ret_ok \/ failure.kind # "none" THEN failure
                        ELSE [kind |-> "encode", encodes |-> Len(encodeLog'),
                              emits |-> Len(emitLog)]
          /\ pc' = IF Q_ASSERT_aborts(ret_ok) THEN "aborted"
                   ELSE AfterEncode(ShouldEmit(got_output))
    /\ UNCHANGED <<qt_no_debug, m_samples_size, m_buffer, m_samples, count, retval,
                   fed, emitLog, startLen, iters>>

\* av_interleaved_write_frame and the assertion on its result.
av_interleaved_write_frame(ret_ok) ==
    /\ pc = "emit"
    /\ emitLog' = Append(emitLog, pkt)
    /\ failure' = IF ret_ok \/ failure.kind # "none" THEN failure
                  ELSE [kind |-> "emit", encodes |-> Len(encodeLog),
                        emits |-> Len(emitLog')]
    /\ pc' = IF Q_ASSERT_aborts(ret_ok) THEN "aborted" ELSE "while"
    /\ UNCHANGED <<qt_no_debug, m_samples_size, m_buffer, m_samples, pkt, count,
                   retval, fed, encodeLog, startLen, iters>>

Next ==
    \/ \E buf \in Chunks(MaxTotal) : write(buf)
    \/ WhileTest
    \/ CopyFrame
    \/ \E out \in EncodeOutcome : avcodec_encode_audio2(out)
    \/ \E ret_ok \in BOOLEAN : av_interleaved_write_frame(ret_ok)

Spec == Init /\ [][Next]_vars

SpecCtor == InitCtor /\ [][Next]_vars

TypeOK ==
    /\ m_samples_size \in 0..(MaxSamplesSize + 1)
    /\ pc \in {"idle", "while", "body", "encode", "emit", "aborted"}
    /\ Len(fed) <= MaxTotal + 1
    /\ retval \in {NoReturn} \cup 0..(MaxTotal + 1)

\* ---- helpers of the properties ----

\* Numbers of the frames for which the encoder returned a packet, in order.
OutputFrames(log) ==
    SelectSeq([k \in 1..Len(log) |-> k], LAMBDA k : log[k].out = "packet")

\* The k-th frame-sized slice of everything fed so far.
FedFrame(k) == SubSeq(fed, (k - 1) * m_samples_size + 1, k * m_samples_size)

\* The fed bytes that follow the first k frames.
FedAfter(k) == SubSeq(fed, k * m_samples_size + 1, Len(fed))

\* ---- properties ----

\* C1: whenever write() has returned, the number of encoder calls made so far
\* equals floor(L / m_samples_size), L being the total number of bytes fed;
\* the count depends on L only, not on how the bytes were split into chunks.
C1_EncodeCount ==
    pc = "idle" => Len(encodeLog) = Len(fed) \div m_samples_size

\* a chunk of at least two frames was flushed in one call, after earlier calls
C1_Witness ==
    /\ pc = "idle"
    /\ m_samples_size >= 2
    /\ count >= 2 * m_samples_size
    /\ iters >= 2
    /\ Len(fed) > count
    /\ Len(encodeLog) = Len(fed) \div m_samples_size

\* C2: whenever write() has returned, the buffer holds L mod m_samples_size
\* bytes, hence fewer than one frame.
C2_BufferLength ==
    pc = "idle" => /\ Len(m_buffer) = Len(fed) % m_samples_size
                   /\ Len(m_buffer) < m_samples_size

\* a call that flushed a frame returned with bytes left over
C2_Witness ==
    /\ pc = "idle"
    /\ retval # NoReturn
    /\ iters >= 1
    /\ Len(m_buffer) > 0

\* C3: every encoder call gets exactly m_samples_size bytes, and the k-th call
\* gets bytes [(k-1)*m_samples_size, k*m_samples_size) of everything fed.
C3_FramesInOrder ==
    \A k \in 1..Len(encodeLog) :
        /\ Len(encodeLog[k].frame) = m_samples_size
        /\ encodeLog[k].frame = FedFrame(k)

\* a frame of unequal bytes that spans the boundary between two calls
C3_Witness ==
    /\ iters >= 1
    /\ count > 0
    /\ startLen > count
    /\ Len(encodeLog) >= 2
    /\ \E i, j \in 1..m_samples_size :
          encodeLog[Len(encodeLog)].frame[i] # encodeLog[Len(encodeLog)].frame[j]

\* C4: the muxer is called once for each encoder call that returned a packet
\* and not at all for the others, in frame order; while a packet is waiting
\* to be written it is the only one not yet written.
C4_EmitPerOutput ==
    LET expected == OutputFrames(encodeLog)
    IN IF pc = "emit"
         THEN /\ expected # <<>>
              /\ emitLog = SubSeq(expected, 1, Len(expected) - 1)
         ELSE emitLog = expected

\* no packet for frame 1, a packet for frame 2, written once
C4_Witness ==
    /\ pc = "idle"
    /\ Len(encodeLog) = 2
    /\ encodeLog[1].out = "nothing"
    /\ encodeLog[2].out = "packet"
    /\ emitLog = <<2>>
    /\ iters = 2

\* C5: write() returns the length of the chunk it was given.
C5_ReturnsCount ==
    (pc = "idle" /\ retval # NoReturn) => retval = count

\* a call that flushed two frames and kept a remainder returned its count
C5_Witness ==
    /\ pc = "idle"
    /\ retval = count
    /\ iters >= 2
    /\ Len(m_buffer) > 0
    /\ count > Len(m_buffer)

\* C6: a write() of an empty chunk returns at once, calls neither the
\* encoder nor the muxer and leaves the buffer as it was.
C6_EmptyFeed ==
    [][(pc = "idle" /\ fed' = fed)
          => /\ m_buffer' = m_buffer
             /\ encodeLog' = encodeLog
             /\ emitLog' = emitLog
             /\ pc' = "idle"
             /\ retval' = 0]_vars

\* an empty chunk was written while bytes were buffered
C6_Witness ==
    /\ pc = "idle"
    /\ count = 0
    /\ retval = 0
    /\ Len(m_buffer) > 0
    /\ Len(encodeLog) >= 1

\* C7: the flush loop of a write() ends: each iteration shortens the buffer
\* by m_samples_size > 0 bytes, so there are at most
\* floor(startLen / m_samples_size) iterations.
C7_FeedTerminates ==
    /\ iters * m_samples_size <= startLen
    /\ iters > 0 => /\ m_samples_size > 0
                    /\ Len(m_buffer) < startLen
                    /\ iters <= startLen \div m_samples_size

\* C8: after the encoder failed in this write(), no further encoder or muxer
\* call is made, the buffer holds the bytes after the failing frame, and the
\* call does not return count as if it had succeeded.
C8_EncodeFailureStopsFeed ==
    failure.kind = "encode" =>
        /\ Len(encodeLog) = failure.encodes
        /\ Len(emitLog) = failure.emits
        /\ m_buffer = FedAfter(failure.encodes)
        /\ pc = "idle" => retval < 0

\* C9: after the muxer failed in this write(), no further encoder or muxer
\* call is made, the encoded frame stays removed from the buffer, and the
\* call does not return count as if it had succeeded.
C9_EmitFailureStopsFeed ==
    failure.kind = "emit" =>
        /\ Len(encodeLog) = failure.encodes
        /\ Len(emitLog) = failure.emits
        /\ m_buffer = FedAfter(failure.encodes)
        /\ pc = "idle" => retval < 0

\* C10: inside one write() the calls alternate per frame: when the encoder
\* is about to be called the frame is already out of the buffer and every
\* earlier packet has been written; when the muxer is about to be called
\* the packet is that of the frame encoded last.
C10_Interleaved ==
    /\ pc = "encode" =>
          /\ emitLog = OutputFrames(encodeLog)
          /\ pkt = 0
          /\ m_samples = FedFrame(Len(encodeLog) + 1)
          /\ m_buffer = FedAfter(Len(encodeLog) + 1)
    /\ pc = "emit" =>
          /\ pkt = Len(encodeLog)
          /\ encodeLog[pkt].out = "packet"
          /\ Len(emitLog) = Len(OutputFrames(encodeLog)) - 1
          /\ m_buffer = FedAfter(Len(encodeLog))

\* the encoder is about to get a frame right after the previous frame's
\* packet was written in the same call
C10_Witness ==
    /\ pc = "encode"
    /\ iters >= 2
    /\ Len(encodeLog) >= 1
    /\ encodeLog[Len(encodeLog)].out = "packet"
    /\ emitLog # <<>>
    /\ emitLog[Len(emitLog)] = Len(encodeLog)
====
